---- MODULE Spec2Model ----
(***************************************************************************)
(* NationBuilder game engine (GameEngine namespace): the unit module with  *)
(* its A* path search, the per-tick advance of units and the move order,   *)
(* run by a tick thread and by command-issuing threads under unitMutex,    *)
(* and the orchestrator that initialises the modules, runs the tick loop   *)
(* and tears the modules down, with the chat module's console input loop.  *)
(*                                                                         *)
(* Cells are pairs <<x, y>>.  grid[<<x, y>>] is the source's grid[y][x]:   *)
(* 0 = traversable, 1 = obstacle.  The source's 20 x 20 world is scaled to *)
(* GridW x GridH; the float costs g, h, f are small whole numbers here and *)
(* FLT_MAX stands for "not yet reached".                                   *)
(***************************************************************************)
EXTENDS Integers, Sequences, FiniteSets, TLC

\* ---------------------------------------------------------------- bounds
GridW == 3
GridH == 2
MaxBlocked == 2
MaxOrders == 2
LoopLimit == 2
MaxShutdowns == 2
MaxLines == 2
MaxTicks == 12

\* UnitModule::init creates three units.
NumUnits == 3

\* "Not yet reached": the g of a default-constructed Node.
FLT_MAX == 1000000000

VARIABLES
    build,          \* which build of the unit module runs
    gridWidth,      \* UnitModule::gridWidth
    gridHeight,     \* UnitModule::gridHeight
    grid,           \* UnitModule::grid, a function from the cells to {0, 1}
    units,          \* UnitModule::units, a sequence of Unit records
    unitMutex,      \* UnitModule::unitMutex: "free" or the thread holding it
    pc,             \* position of each thread
    loc,            \* locals of each thread (arguments, loop index, temporaries)
    orders,         \* number of move orders issued so far
    status,         \* what the running printStatus has written: one row per unit
    stable,         \* per unit, the states it had between whole operations
                    \* since the running printStatus began
    query,          \* arguments of a direct computePath call
    answer,         \* its result
    modules,        \* the orchestrator's modules vector (names, in order)
    isEngineRunning, \* the orchestrator's run flag (atomic<bool>)
    engineThread,   \* the tick thread object: "none", "running", "finished"
                    \* (its function returned, not yet joined) or "joined"
    messageQueue,   \* ChatModule::messageQueue
    chatMutex,      \* ChatModule::chatMutex: "free" or the thread holding it
    reported,       \* the messages ChatModule::update has printed, in order
    isRunning,      \* ChatModule::isRunning (atomic<bool>)
    inputThread,    \* ChatModule::inputThread, as engineThread
    stdin,          \* the console stream: "open" or "failed"
    epc,            \* position of the caller, the tick loop and the input loop
    eloc,           \* their locals and counters
    calls           \* lifecycle calls made on the modules so far, in order

engineVars == <<modules, isEngineRunning, engineThread, messageQueue, chatMutex,
                reported, isRunning, inputThread, stdin, epc, eloc, calls>>

vars == <<build, gridWidth, gridHeight, grid, units, unitMutex, pc, loc, orders,
          status, stable, query, answer, engineVars>>

\* ------------------------------------------------------------- the grid
Cells(w, h) == (0 .. w - 1) \X (0 .. h - 1)

InGrid(w, h, c) == c[1] >= 0 /\ c[1] < w /\ c[2] >= 0 /\ c[2] < h

Abs(n) == IF n < 0 THEN -n ELSE n

Adjacent(a, b) == Abs(a[1] - b[1]) + Abs(a[2] - b[2]) = 1

Walkable(g, w, h, c) == InGrid(w, h, c) /\ g[c] = 0

\* ------------------------------------------- std::priority_queue<Node>
\* The open set is a binary heap kept in a sequence (index 1 is the top),
\* pushed and popped as the C++ library of the emcc build (build.sh) does:
\* push sifts the new node up past every parent that is greater, pop walks
\* the hole down to a leaf and sifts the last node up from there.
\* Node::operator> compares f alone, so the order among equal f is the
\* heap's, not the order of discovery.
\* (mutant) the comparison the other way round: the largest f on top.
NodeLess(a, b) == a.f < b.f

NodeGreater(a, b) == a.f > b.f

\* push_heap's sift-up of value v into the hole at index i.
RECURSIVE SiftUp(_, _, _)
SiftUp(heap, i, v) ==
    IF i > 1 /\ NodeGreater(heap[i \div 2], v)
    THEN SiftUp([heap EXCEPT ![i] = heap[i \div 2]], i \div 2, v)
    ELSE [heap EXCEPT ![i] = v]

HeapPush(heap, v) == SiftUp(Append(heap, v), Len(heap) + 1, v)

\* pop_heap's walk of the hole from the top down to a leaf, always towards
\* the child that is not greater; returns the heap and the hole's index.
RECURSIVE FloydSiftDown(_, _)
FloydSiftDown(heap, hole) ==
    LET n == Len(heap)
        l == 2 * hole
        c == IF l + 1 <= n /\ NodeGreater(heap[l], heap[l + 1]) THEN l + 1 ELSE l
    IN  IF l > n THEN <<heap, hole>>
        ELSE FloydSiftDown([heap EXCEPT ![hole] = heap[c]], c)

\* top() is heap[1]; pop() removes it.
HeapPop(heap) ==
    LET n == Len(heap)
    IN  IF n <= 1 THEN <<>>
        ELSE LET r    == FloydSiftDown(heap, 1)
                 h2   == r[1]
                 hole == r[2]
             IN  IF hole = n THEN SubSeq(h2, 1, n - 1)
                 ELSE SiftUp(SubSeq(h2, 1, n - 1), hole, heap[n])

\* ------------------------------------------------ UnitModule::computePath
\* Manhattan distance to the goal.
heuristic(c, goal) == Abs(c[1] - goal[1]) + Abs(c[2] - goal[2])

\* (mutant) dy[] = {-1, 1, 0, 1}: the fourth neighbour is a diagonal one.
NeighborSlanted(c, i) ==
    CASE i = 1 -> <<c[1], c[2] - 1>>
      [] i = 2 -> <<c[1], c[2] + 1>>
      [] i = 3 -> <<c[1] - 1, c[2]>>
      [] OTHER -> <<c[1] + 1, c[2] + 1>>

\* dx[] = {0, 0, -1, 1}, dy[] = {-1, 1, 0, 0}
Neighbor(c, i) ==
    CASE i = 1 -> <<c[1], c[2] - 1>>
      [] i = 2 -> <<c[1], c[2] + 1>>
      [] i = 3 -> <<c[1] - 1, c[2]>>
      [] OTHER -> <<c[1] + 1, c[2]>>

\* The two builds of the unit module.  They differ in when computePath
\* re-queues a cell, in the type of setDestination's index and in whether
\* printStatus takes the mutex.
StrictG == "part_008"
ImprovedF == "part_007"
Builds == {StrictG, ImprovedF}

\* A cell of the node table before the search reaches it:
\* Node(x, y, FLT_MAX, FLT_MAX, -1, -1), so f = g + h.
DefaultNode == [g |-> FLT_MAX, f |-> FLT_MAX + FLT_MAX, parent |-> <<-1, -1>>]

\* (mutant) the f-comparison the wrong way round.
ImprovesInverted(b, gNew, fNew, node) ==
    IF b = StrictG THEN gNew < node.g ELSE fNew > node.f

\* Whether a neighbour reached with cost gNew (priority fNew) replaces its
\* entry of the node table and is pushed: gNew < allNodes[ny][nx].g in one
\* build, fNew < nodes[ny][nx].f in the other.
Improves(b, gNew, fNew, node) ==
    IF b = StrictG THEN gNew < node.g ELSE fNew < node.f

\* The for loop over the four neighbours of the popped node cur; st holds
\* the open set, the node table and the trail of the pops made so far.
\* seq numbers the pushes in the order they are made: the i-th neighbour
\* of the p-th pop gets 4 * p + i - 1, the start node 0.
RECURSIVE Explore(_, _, _, _, _, _, _, _, _)
Explore(b, g, w, h, goal, cur, closed, i, st) ==
    IF i > 4 THEN st
    ELSE LET n    == Neighbor(<<cur.x, cur.y>>, i)
             gNew == cur.g + 1
             fNew == gNew + heuristic(n, goal)
         IN  IF ~InGrid(w, h, n) \/ g[n] = 1 \/ n \in closed
             THEN Explore(b, g, w, h, goal, cur, closed, i + 1, st)
             ELSE IF Improves(b, gNew, fNew, st.nodes[n])
             THEN LET node == [x |-> n[1], y |-> n[2], g |-> gNew, f |-> fNew,
                               seq |-> 4 * Len(st.trail) + i - 1]
                  IN  Explore(b, g, w, h, goal, cur, closed, i + 1,
                              [st EXCEPT
                                 !.open = HeapPush(st.open, node),
                                 !.nodes = [st.nodes EXCEPT
                                              ![n] = [g |-> gNew, f |-> fNew,
                                                      parent |-> <<cur.x, cur.y>>]]])
             ELSE Explore(b, g, w, h, goal, cur, closed, i + 1, st)

\* The neighbours of an expanded cell that pass the bounds test: the
\* cells at which the grid, the closed set and the node table are read.
Indexed(w, h, c) == {n \in {Neighbor(c, i) : i \in 1 .. 4} : InGrid(w, h, n)}

\* Whether the i-th pop of a trail kept the order of discovery against
\* the entry e: e has the priority of the popped entry and was in the
\* open set at that pop (pushed by an earlier pop) only if it was
\* pushed after the popped entry.
InOrder(trail, i, e) ==
    (e.f = trail[i][1].f /\ e.seq \div 4 < i) => trail[i][1].seq < e.seq

\* What a finished search hands on: the node table, the pops made, the
\* trail (each popped entry with whether it was expanded) and the
\* entries left in the open set.
Outcome(found, st, pops) ==
    [found |-> found, nodes |-> st.nodes, pops |-> pops,
     trail |-> st.trail, left |-> st.open]

\* (mutant) the popped cell is never taken for the goal.
GoalNeverPopped(b, c, goal, closed) == FALSE

\* The test that ends the search with success: on the popped cell at
\* once in one build, on a popped cell not yet closed in the other.
GoalPopped(b, c, goal, closed) == c = goal /\ (b = StrictG \/ c \notin closed)

\* The while loop over the open set; pops counts the pops made.  One
\* build tests for the goal before the closed set, the other after.
RECURSIVE Search(_, _, _, _, _, _, _, _)
Search(b, g, w, h, goal, closed, st, pops) ==
    IF st.open = <<>>
    THEN Outcome(FALSE, st, pops)
    ELSE LET cur  == st.open[1]
             rest == HeapPop(st.open)
             c    == <<cur.x, cur.y>>
             st1  == [st EXCEPT !.open = rest,
                                !.trail = Append(@, <<cur, FALSE>>)]
         IN  IF GoalPopped(b, c, goal, closed)
             THEN Outcome(TRUE, st1, pops + 1)
             ELSE IF c \in closed
             THEN Search(b, g, w, h, goal, closed, st1, pops + 1)
             ELSE Search(b, g, w, h, goal, closed \cup {c},
                         Explore(b, g, w, h, goal, cur, closed \cup {c}, 1,
                                 [st EXCEPT !.open = rest,
                                            !.trail = Append(@, <<cur, TRUE>>)]),
                         pops + 1)

\* (mutant) the walk without the final std::reverse.
RECURSIVE ReconstructUnreversed(_, _, _, _)
ReconstructUnreversed(nodes, start, c, acc) ==
    IF c = start THEN acc
    ELSE ReconstructUnreversed(nodes, start, nodes[c].parent, Append(acc, c))

\* The walk over the parent links from the goal back to the start; the
\* path is built front to back, which is the source's push_back + reverse.
RECURSIVE Reconstruct(_, _, _, _)
Reconstruct(nodes, start, c, acc) ==
    IF c = start THEN acc
    ELSE Reconstruct(nodes, start, nodes[c].parent, <<c>> \o acc)

\* The search up to the end of its while loop.
SearchFrom(b, g, w, h, start, goal) ==
    LET first == [x |-> start[1], y |-> start[2], g |-> 0,
                  f |-> heuristic(start, goal), seq |-> 0]
        nodes == [c \in Cells(w, h) |->
                    IF c = start
                    THEN [g |-> 0, f |-> heuristic(start, goal),
                          parent |-> <<-1, -1>>]
                    ELSE DefaultNode]
    IN  Search(b, g, w, h, goal, {},
               [open |-> <<first>>, nodes |-> nodes, trail |-> <<>>],
               0)

\* (mutant) the walk back also records the cell it stops at.
PathOfKeepsStart(r, start, goal) ==
    IF r.found THEN <<start>> \o Reconstruct(r.nodes, start, goal, <<>>) ELSE <<>>

\* (mutant) a search that never pops the goal answers with the goal alone.
PathOfGoalWhenNone(r, start, goal) ==
    IF r.found THEN Reconstruct(r.nodes, start, goal, <<>>) ELSE <<goal>>

\* The path of a finished search: empty unless the goal was popped.
PathOf(r, start, goal) ==
    IF r.found THEN Reconstruct(r.nodes, start, goal, <<>>) ELSE <<>>

computePath(b, g, w, h, start, goal) ==
    PathOf(SearchFrom(b, g, w, h, start, goal), start, goal)

\* ------------------------------------------- breadth-first reference
\* Number of 4-connected steps of a shortest walkable route from the cells
\* of frontier (at distance d) to goal; -1 when there is none.
RECURSIVE BfsDist(_, _, _, _, _, _, _)
BfsDist(g, w, h, goal, frontier, seen, d) ==
    IF goal \in frontier THEN d
    ELSE IF frontier = {} THEN -1
    ELSE LET next == {n \in Cells(w, h) :
                        /\ n \notin seen
                        /\ g[n] = 0
                        /\ \E c \in frontier : Adjacent(c, n)}
         IN  BfsDist(g, w, h, goal, next, seen \cup next, d + 1)

ShortestDist(g, w, h, start, goal) ==
    BfsDist(g, w, h, goal, {start}, {start}, 0)

\* A path as Section 3 of the design defines it, from (excluding) from.
ValidPath(g, w, h, from, path) ==
    \A k \in 1 .. Len(path) :
        /\ Walkable(g, w, h, path[k])
        /\ Adjacent(IF k = 1 THEN from ELSE path[k - 1], path[k])

\* ------------------------------------------------------ initial worlds
RECURSIVE SubsetsUpTo(_, _)
SubsetsUpTo(S, k) ==
    IF k = 0 THEN {{}}
    ELSE LET prev == SubsetsUpTo(S, k - 1)
         IN  prev \cup {s \cup {e} : s \in prev, e \in S}

GridWith(w, h, blocked) == [c \in Cells(w, h) |-> IF c \in blocked THEN 1 ELSE 0]

Min(a, b) == IF a < b THEN a ELSE b

\* UnitModule::init's obstacle wall (a run of cells of one row), scaled.
Wall(w, h) == {<<x, 0>> : x \in 1 .. w - 2}

\* Unit::Unit: a unit starts idle, its destination its own cell.
Unit(n, hp, startX, startY) ==
    [name |-> n, health |-> hp, x |-> startX, y |-> startY,
     destX |-> startX, destY |-> startY, path |-> <<>>, isMoving |-> FALSE]

\* UnitModule::init's three units; their cells are kept inside the scaled grid.
InitialUnits(w, h) ==
    <<Unit("Infantry", 100, Min(1, w - 1), Min(1, h - 1)),
      Unit("Tank", 150, Min(2, w - 1), Min(2, h - 1)),
      Unit("Artillery", 80, Min(3, w - 1), Min(1, h - 1))>>

\* ----------------------------------------------------------- threads
TickThread == "tick"
Commanders == {"cmd1", "cmd2"}
Threads == {TickThread} \cup Commanders

NoRow == [name |-> "", health |-> 0, x |-> -1, y |-> -1,
          destX |-> -1, destY |-> -1, isMoving |-> FALSE]
NoCall == [called |-> FALSE]

TickLocals == [i |-> 0, before |-> <<>>, row |-> NoRow]
CmdLocals == [unitIndex |-> 0, destX |-> 0, destY |-> 0, ref |-> 0,
              before |-> <<>>, got |-> NoCall]

Pos(u) == <<u.x, u.y>>
Dest(u) == <<u.destX, u.destY>>

\* One line of printStatus: what it prints of a unit.
Row(u) == [name |-> u.name, health |-> u.health, x |-> u.x, y |-> u.y,
           destX |-> u.destX, destY |-> u.destY, isMoving |-> u.isMoving]

\* (mutant) a guard that does not wait for the mutex.
AcquireNoWait(t) == unitMutex' = t

\* std::lock_guard<std::mutex> lock(unitMutex): waits until the mutex is free.
Acquire(t) == unitMutex = "free" /\ unitMutex' = t

\* (mutant) a guard whose destructor does not unlock.
ReleaseNever(t) == unitMutex' = unitMutex

\* The lock_guard's destructor.
Release(t) == unitMutex' = "free"

\* (mutant) the comparison with the size off by one.
IndexRejectedOffByOne(b, unitIndex, size) ==
    IF b = StrictG THEN unitIndex > size
    ELSE unitIndex < 0 \/ unitIndex > size

\* if (unitIndex >= units.size()) return;  with a size_t index, and
\* if (index < 0 || index >= units.size()) return;  with an int index.
IndexRejected(b, unitIndex, size) ==
    IF b = StrictG THEN unitIndex >= size
    ELSE unitIndex < 0 \/ unitIndex >= size

\* The indices a caller can pass: a size_t is never negative.
IndexArgs(b) == IF b = StrictG THEN 0 .. NumUnits ELSE -1 .. NumUnits

\* (mutant) units[unitIndex + 1], wrapped round: the unit after the one
\* asked for.
ReferentNext(unitIndex, size) ==
    IF unitIndex >= 0 /\ unitIndex < size THEN {((unitIndex + 1) % size) + 1}
    ELSE 1 .. size

\* units[unitIndex]: for an index in range that unit (1-based here); an
\* index out of range is undefined behaviour and may hit any unit.
Referent(unitIndex, size) ==
    IF unitIndex >= 0 /\ unitIndex < size THEN {unitIndex + 1} ELSE 1 .. size

\* (mutant) the flag without the negation.
MovingForInverted(path) == path = <<>>

\* unit.isMoving = !unit.path.empty();
MovingFor(path) == path # <<>>

\* The destinations the commanders order: two corners, a cell of the wall,
\* the Infantry's start cell and a cell outside the grid.
OrderCells(w, h) ==
    {<<0, 0>>, <<w - 1, h - 1>>, <<1, 0>>, <<Min(1, w - 1), Min(1, h - 1)>>, <<w, 0>>}

\* The unit states that exist between whole operations, as far as the
\* threads can tell now: the registry itself, or what it was when the
\* current holder of the mutex took it.
Settled ==
    IF unitMutex = "free" THEN units ELSE loc[unitMutex].before

\* ------------------------------------------- UnitModule::setDestination
\* A caller (main, or any command source) calls setDestination(i, x, y):
\* the lock_guard, then the check of the index.
SdEnter(t) ==
    /\ pc[t] = "idle"
    /\ orders < MaxOrders
    /\ Acquire(t)
    /\ \E i \in IndexArgs(build), d \in OrderCells(gridWidth, gridHeight) :
         IF IndexRejected(build, i, Len(units))
         THEN /\ pc' = [pc EXCEPT ![t] = "sd_unlock"]
              /\ loc' = [loc EXCEPT ![t] =
                            [@ EXCEPT !.unitIndex = i, !.destX = d[1],
                                      !.destY = d[2], !.ref = 0,
                                      !.before = units]]
         ELSE /\ pc' = [pc EXCEPT ![t] = "sd_destX"]
              /\ \E k \in Referent(i, Len(units)) :
                    loc' = [loc EXCEPT ![t] =
                               [@ EXCEPT !.unitIndex = i, !.destX = d[1],
                                         !.destY = d[2], !.ref = k,
                                         !.before = units]]
    /\ orders' = orders + 1
    /\ UNCHANGED <<engineVars, build, gridWidth, gridHeight, grid, units, status, stable,
                   query, answer>>

SdDestX(t) ==
    /\ pc[t] = "sd_destX"
    /\ units' = [units EXCEPT ![loc[t].ref].destX = loc[t].destX]
    /\ pc' = [pc EXCEPT ![t] = "sd_destY"]
    /\ UNCHANGED <<engineVars, build, gridWidth, gridHeight, grid, unitMutex, loc, orders,
                   status, stable, query, answer>>

SdDestY(t) ==
    /\ pc[t] = "sd_destY"
    /\ units' = [units EXCEPT ![loc[t].ref].destY = loc[t].destY]
    /\ pc' = [pc EXCEPT ![t] = "sd_path"]
    /\ UNCHANGED <<engineVars, build, gridWidth, gridHeight, grid, unitMutex, loc, orders,
                   status, stable, query, answer>>

SdPath(t) ==
    /\ pc[t] = "sd_path"
    /\ units' = [units EXCEPT ![loc[t].ref].path =
                    computePath(build, grid, gridWidth, gridHeight,
                                Pos(units[loc[t].ref]),
                                <<loc[t].destX, loc[t].destY>>)]
    /\ pc' = [pc EXCEPT ![t] = "sd_moving"]
    /\ UNCHANGED <<engineVars, build, gridWidth, gridHeight, grid, unitMutex, loc, orders,
                   status, stable, query, answer>>

SdMoving(t) ==
    /\ pc[t] = "sd_moving"
    /\ units' = [units EXCEPT ![loc[t].ref].isMoving =
                    MovingFor(units[loc[t].ref].path)]
    /\ pc' = [pc EXCEPT ![t] = "sd_unlock"]
    /\ UNCHANGED <<engineVars, build, gridWidth, gridHeight, grid, unitMutex, loc, orders,
                   status, stable, query, answer>>

\* What the caller of setDestination has in hand when the call is over:
\* the function returns void; the log line goes to the console.
CallRecord(t) ==
    LET rejected == loc[t].ref = 0
        u        == units[loc[t].ref]
    IN  [called   |-> TRUE,
         rejected |-> rejected,
         atDest   |-> ~rejected /\ Pos(u) = <<loc[t].destX, loc[t].destY>>,
         routed   |-> ~rejected /\ u.isMoving,
         ret      |-> "void",
         log      |-> IF rejected THEN "none"
                      ELSE IF u.isMoving THEN "starting path"
                      ELSE "could not find a path"]

\* The log line, the return and the release of the mutex.
SdUnlock(t) ==
    /\ pc[t] = "sd_unlock"
    /\ Release(t)
    /\ loc' = [loc EXCEPT ![t] = [@ EXCEPT !.before = <<>>, !.ref = 0,
                                           !.got = CallRecord(t)]]
    /\ stable' = IF stable = <<>> THEN stable
                 ELSE [k \in 1 .. Len(units) |-> stable[k] \cup {Row(units[k])}]
    /\ pc' = [pc EXCEPT ![t] = "sd_returned"]
    /\ UNCHANGED <<engineVars, build, gridWidth, gridHeight, grid, units, orders, status,
                   query, answer>>

\* The caller goes on; nothing of the call is left with it.
SdReturned(t) ==
    /\ pc[t] = "sd_returned"
    /\ loc' = [loc EXCEPT ![t] = CmdLocals]
    /\ pc' = [pc EXCEPT ![t] = "idle"]
    /\ UNCHANGED <<engineVars, build, gridWidth, gridHeight, grid, units, unitMutex, orders,
                   status, stable, query, answer>>

setDestination(t) ==
    \/ SdEnter(t)
    \/ SdDestX(t)
    \/ SdDestY(t)
    \/ SdPath(t)
    \/ SdMoving(t)
    \/ SdUnlock(t)
    \/ SdReturned(t)

\* --------------------------------------------------- UnitModule::update
\* (mutant) the loop body without the test that clears isMoving.
AdvanceKeepsFlag(u) ==
    IF u.isMoving /\ u.path # <<>>
    THEN [u EXCEPT !.path = Tail(u.path),
                   !.x = Head(u.path)[1],
                   !.y = Head(u.path)[2]]
    ELSE u

\* (mutant) the step is taken off the path but the unit is not moved.
AdvanceStays(u) ==
    IF u.isMoving /\ u.path # <<>>
    THEN [u EXCEPT !.path = Tail(u.path),
                   !.isMoving = Tail(u.path) # <<>>]
    ELSE u

\* (mutant) a step costs the unit a point of health.
AdvanceWearsUnit(u) ==
    IF u.isMoving /\ u.path # <<>>
    THEN [u EXCEPT !.path = Tail(u.path),
                   !.x = Head(u.path)[1],
                   !.y = Head(u.path)[2],
                   !.isMoving = Tail(u.path) # <<>>,
                   !.health = @ - 1]
    ELSE u

\* The body of update's loop for one unit.
Advance(u) ==
    IF u.isMoving /\ u.path # <<>>
    THEN [u EXCEPT !.path = Tail(u.path),
                   !.x = Head(u.path)[1],
                   !.y = Head(u.path)[2],
                   !.isMoving = Tail(u.path) # <<>>]
    ELSE u

\* The lock_guard and the loop over the units, in registry order.
UpRun ==
    /\ pc[TickThread] \in {"up_lock", "updated", "printed"}
    /\ Acquire(TickThread)
    /\ units' = [k \in 1 .. Len(units) |-> Advance(units[k])]
    /\ loc' = [loc EXCEPT ![TickThread].before = units]
    /\ pc' = [pc EXCEPT ![TickThread] = "up_unlock"]
    /\ status' = <<>>
    /\ stable' = <<>>
    /\ UNCHANGED <<engineVars, build, gridWidth, gridHeight, grid, orders, query, answer>>

\* update returns: the mutex is released.
UpUnlock ==
    /\ pc[TickThread] = "up_unlock"
    /\ Release(TickThread)
    /\ loc' = [loc EXCEPT ![TickThread].before = <<>>]
    /\ pc' = [pc EXCEPT ![TickThread] = "updated"]
    /\ UNCHANGED <<engineVars, build, gridWidth, gridHeight, grid, units, orders, status,
                   stable, query, answer>>

update == UpRun \/ UpUnlock

\* ---------------------------------------------- UnitModule::printStatus
\* Whether printStatus holds unitMutex while it reads the units: one
\* build opens with a lock_guard, the other leaves locking to its caller.
PrintLocks(b) == b = ImprovedF

\* mainLoop prints the status every 150th (or 100th) iteration; here any
\* iteration may.
PsStart ==
    /\ pc[TickThread] = "updated"
    /\ IF PrintLocks(build) THEN Acquire(TickThread) ELSE UNCHANGED unitMutex
    /\ status' = <<>>
    /\ stable' = [k \in 1 .. Len(units) |-> {Row(Settled[k])}]
    /\ loc' = [loc EXCEPT ![TickThread].i = 1]
    /\ pc' = [pc EXCEPT ![TickThread] = "ps_row"]
    /\ UNCHANGED <<engineVars, build, gridWidth, gridHeight, grid, units, orders,
                   query, answer>>

\* << unit.name << unit.health << unit.x << unit.y
PsRow ==
    /\ pc[TickThread] = "ps_row"
    /\ LET u == units[loc[TickThread].i]
       IN  loc' = [loc EXCEPT ![TickThread].row =
                      [NoRow EXCEPT !.name = u.name, !.health = u.health,
                                    !.x = u.x, !.y = u.y]]
    /\ pc' = [pc EXCEPT ![TickThread] = "ps_destX"]
    /\ UNCHANGED <<engineVars, build, gridWidth, gridHeight, grid, units, unitMutex, orders,
                   status, stable, query, answer>>

\* << unit.destX
PsDestX ==
    /\ pc[TickThread] = "ps_destX"
    /\ loc' = [loc EXCEPT ![TickThread].row.destX = units[loc[TickThread].i].destX]
    /\ pc' = [pc EXCEPT ![TickThread] = "ps_destY"]
    /\ UNCHANGED <<engineVars, build, gridWidth, gridHeight, grid, units, unitMutex, orders,
                   status, stable, query, answer>>

\* << unit.destY
PsDestY ==
    /\ pc[TickThread] = "ps_destY"
    /\ loc' = [loc EXCEPT ![TickThread].row.destY = units[loc[TickThread].i].destY]
    /\ pc' = [pc EXCEPT ![TickThread] = "ps_moving"]
    /\ UNCHANGED <<engineVars, build, gridWidth, gridHeight, grid, units, unitMutex, orders,
                   status, stable, query, answer>>

\* << (unit.isMoving ? " [Moving]" : " [Idle]") << std::endl
PsMoving ==
    /\ pc[TickThread] = "ps_moving"
    /\ LET i == loc[TickThread].i
       IN  /\ status' = Append(status,
                   [loc[TickThread].row EXCEPT !.isMoving = units[i].isMoving])
           /\ loc' = [loc EXCEPT ![TickThread] = [@ EXCEPT !.i = i + 1, !.row = NoRow]]
           /\ pc' = [pc EXCEPT ![TickThread] =
                        IF i >= Len(units) THEN "ps_end" ELSE "ps_row"]
    /\ UNCHANGED <<engineVars, build, gridWidth, gridHeight, grid, units, unitMutex, orders,
                   stable, query, answer>>

\* printStatus returns; what it printed stays on the console.
PsEnd ==
    /\ pc[TickThread] = "ps_end"
    /\ IF PrintLocks(build) THEN Release(TickThread) ELSE UNCHANGED unitMutex
    /\ loc' = [loc EXCEPT ![TickThread].i = 0]
    /\ pc' = [pc EXCEPT ![TickThread] = "printed"]
    /\ UNCHANGED <<engineVars, build, gridWidth, gridHeight, grid, units, orders, status,
                   stable, query, answer>>

printStatus == PsRow \/ PsDestX \/ PsDestY \/ PsMoving \/ PsEnd

\* ------------------------------------------------------ the unit module
\* The orchestrator's threads and their locals before anything runs.
EngineThreads == {"main", "engine", "input"}

NoEngineLocals ==
    [k |-> 0, failed |-> 0, returned |-> "none", log |-> "none", ran |-> FALSE,
     shutdowns |-> 0, destroying |-> FALSE, snap |-> <<>>, iteration |-> 0,
     begunAfter |-> 0, lines |-> 0,
     u |-> 0, updated |-> <<>>, tickStart |-> <<>>,
     line |-> "", got |-> <<>>, queuedEver |-> <<>>, failedReads |-> 0,
     work |-> 0, late |-> 0, ideal |-> 0, stopped |-> FALSE, exitAt |-> -1]

\* No orchestrator: the unit module is driven directly.
EngineOff ==
    /\ modules = <<>>
    /\ isEngineRunning = FALSE
    /\ engineThread = "none"
    /\ messageQueue = <<>>
    /\ chatMutex = "free"
    /\ reported = <<>>
    /\ isRunning = FALSE
    /\ inputThread = "none"
    /\ stdin = "open"
    /\ epc = [t \in EngineThreads |-> "off"]
    /\ eloc = NoEngineLocals
    /\ calls = <<>>

NoQuery == [start |-> <<-1, -1>>, goal |-> <<-1, -1>>]
NoAnswer == [done |-> FALSE, path |-> <<>>, found |-> FALSE, pops |-> 0,
             fifo |-> TRUE, expanded |-> <<>>, touched |-> {}, pushed |-> 0]

\* What a call of computePath leaves behind: the path returned and the
\* record of the search; the walk back over the parent links indexes the
\* node table at every cell it puts on the path.
Answer(r, w, h, start, goal) ==
    LET p    == PathOf(r, start, goal)
        n    == Len(r.trail)
        Cell(i) == <<r.trail[i][1].x, r.trail[i][1].y>>
        exps == {i \in 1 .. n : r.trail[i][2]}
        RECURSIVE Cut(_)
        Cut(i) == IF i > n THEN <<>>
                  ELSE IF r.trail[i][2] THEN <<Cell(i)>> \o Cut(i + 1)
                  ELSE Cut(i + 1)
    IN  [done |-> TRUE, path |-> p, found |-> r.found, pops |-> r.pops,
         fifo |-> \A i \in 1 .. n :
                    /\ \A j \in i + 1 .. n : InOrder(r.trail, i, r.trail[j][1])
                    /\ \A k \in 1 .. Len(r.left) : InOrder(r.trail, i, r.left[k]),
         expanded |-> Cut(1),
         touched |-> {start} \cup {Cell(i) : i \in 1 .. n}
                       \cup UNION {Indexed(w, h, Cell(i)) : i \in exps}
                       \cup {p[k] : k \in 1 .. Len(p)},
         pushed |-> n + Len(r.left)]

\* The state after UnitModule::init, the tick thread about to update.
Init ==
    /\ build \in Builds
    /\ gridWidth = GridW
    /\ gridHeight = GridH
    /\ grid = GridWith(GridW, GridH, Wall(GridW, GridH))
    /\ units = InitialUnits(GridW, GridH)
    /\ unitMutex = "free"
    /\ pc = [t \in Threads |-> IF t = TickThread THEN "up_lock" ELSE "idle"]
    /\ loc = [t \in Threads |-> IF t = TickThread THEN TickLocals ELSE CmdLocals]
    /\ orders = 0
    /\ status = <<>>
    /\ stable = <<>>
    /\ query = NoQuery
    /\ answer = NoAnswer
    /\ EngineOff

\* Move orders from two threads while the tick thread updates.
Next ==
    \/ \E t \in Commanders : setDestination(t)
    \/ update

Spec == Init /\ [][Next]_vars

\* The same, the tick thread also printing the status.
NextStatus ==
    \/ Next
    \/ PsStart
    \/ printStatus

SpecStatus == Init /\ [][NextStatus]_vars

\* ----------------------------------- computePath called on its own
\* Goals of a direct query: every cell, and a cell beyond each side.
GoalCells(w, h) ==
    Cells(w, h) \cup {<<-1, 0>>, <<w, h - 1>>, <<0, -1>>, <<w - 1, h>>}

InitPath ==
    /\ build \in Builds
    /\ gridWidth = GridW
    /\ gridHeight = GridH
    /\ \E b \in SubsetsUpTo(Cells(GridW, GridH), MaxBlocked) :
            grid = GridWith(GridW, GridH, b)
    /\ units = <<>>
    /\ unitMutex = "free"
    /\ pc = [t \in Threads |-> "off"]
    /\ loc = [t \in Threads |-> IF t = TickThread THEN TickLocals ELSE CmdLocals]
    /\ orders = 0
    /\ status = <<>>
    /\ stable = <<>>
    /\ \E s \in Cells(GridW, GridH), t \in GoalCells(GridW, GridH) :
            /\ grid[s] = 0
            /\ query = [start |-> s, goal |-> t]
    /\ answer = NoAnswer
    /\ EngineOff

CallComputePath ==
    /\ ~answer.done
    /\ query # NoQuery
    /\ LET r == SearchFrom(build, grid, gridWidth, gridHeight, query.start, query.goal)
       IN  answer' = Answer(r, gridWidth, gridHeight, query.start, query.goal)
    /\ UNCHANGED <<engineVars, build, gridWidth, gridHeight, grid, units, unitMutex, pc, loc,
                   orders, status, stable, query>>

NextPath == CallComputePath

SpecPath == InitPath /\ [][NextPath]_vars

\* ------------------------------------------------------ the orchestrator
\* The orchestrator exists in three builds: GameEngineController of
\* part_008 and the GameEngine of part_007 and of gameplay_stitched.cpp.
Stitched == "gameplay_stitched.cpp"
EngineBuilds == Builds \cup {Stitched}

\* The modules init pushes onto the modules vector, in order.
Registered(b) ==
    IF b = StrictG
    THEN <<"Unit", "Combat", "Economy", "Government", "Chat">>
    ELSE IF b = ImprovedF
    THEN <<"Unit", "Combat", "Economy", "Government", "Chat", "Misc">>
    ELSE <<"Government", "Lobby", "Payment">>

\* (mutant) the loop over the modules runs on after a failed init.
FailNever(ok) == FALSE

\* if (!mod->init()) { log; return false; }
FailFast(ok) == ~ok

\* What the caller of init gets when the init of module m fails: the
\* return value and the line logged.
InitReport(b, m) ==
    [returned |-> "false",
     log |-> IF b = StrictG THEN "GameEngineController: Failed to initialize a module."
             ELSE IF b = ImprovedF THEN "GameEngine: Error initializing a module."
             ELSE "[GameEngine] Error initializing a module."]

\* (mutant) teardown walks the modules front to back.
ForwardOrder(b, n) == [i \in 1 .. n |-> i]

\* The order in which shutdown walks the n modules: rbegin..rend in the
\* controller, a plain range-for in the two GameEngine classes.
TeardownOrder(b, n) ==
    IF b = StrictG THEN [i \in 1 .. n |-> n + 1 - i] ELSE [i \in 1 .. n |-> i]

\* (mutant) shutdown leaves the modules in the vector.
KeptModules(ms) == ms

\* modules.clear() at the end of shutdown.
ClearedModules(ms) == << >>

\* run() of the controller returns at once unless init succeeded.
\* (mutant) no build's run looks at the flag.
RunUnguarded(b) == FALSE

RunGuarded(b) == b = StrictG

\* Only the controller has stop() and a destructor that calls shutdown.
HasStop(b) == b = StrictG
DestructorShutsDown(b) == b = StrictG

\* The demo limit of the loop (1500, 1000 and 300 iterations in the
\* sources): iteration > limit in the controller, iter >= limit elsewhere.
LoopEnds(b, iteration) ==
    IF b = StrictG THEN iteration > LoopLimit ELSE iteration >= LoopLimit

Joinable(th) == th \in {"running", "finished"}

Has(m) == \E i \in 1 .. Len(modules) : modules[i] = m

\* What the engine is, apart from the positions and locals of its threads.
EngineState ==
    <<modules, isEngineRunning, engineThread, messageQueue, isRunning,
      inputThread, calls, units>>

unitVars == <<gridWidth, gridHeight, grid, units>>
chatVars == <<chatMutex, reported>>
restVars == <<build, pc, loc, status, stable, query, answer>>
idleVars == <<unitMutex, orders, restVars>>

\* ---------------------------------------------------- orchestrator init
\* init(): the modules are pushed onto the vector.
EInit ==
    /\ epc["main"] = "m_new"
    /\ modules' = Registered(build)
    /\ epc' = [epc EXCEPT !["main"] = "m_init"]
    /\ eloc' = [eloc EXCEPT !.k = 1]
    /\ UNCHANGED <<isEngineRunning, engineThread, messageQueue, isRunning,
                   inputThread, stdin, calls, unitVars, chatVars, idleVars>>

\* One turn of init's loop: mod->init() is called and answers ok.  A
\* module whose init answers true has run its body: UnitModule::init
\* builds the grid and the units, ChatModule::init starts the input thread.
EInitModule ==
    /\ epc["main"] = "m_init"
    /\ eloc.k <= Len(modules)
    /\ \E ok \in BOOLEAN :
         LET m == modules[eloc.k]
         IN  /\ calls' = Append(calls, [op |-> "init", mod |-> m])
             /\ IF ok /\ m = "Unit"
                THEN /\ gridWidth' = GridW
                     /\ gridHeight' = GridH
                     /\ grid' = GridWith(GridW, GridH, Wall(GridW, GridH))
                     /\ units' = InitialUnits(GridW, GridH)
                ELSE UNCHANGED unitVars
             /\ IF ok /\ m = "Chat"
                THEN isRunning' = TRUE /\ inputThread' = "running"
                ELSE UNCHANGED <<isRunning, inputThread>>
             /\ epc' = [epc EXCEPT
                          !["main"] = IF FailFast(ok) THEN "m_ready" ELSE @,
                          !["input"] = IF ok /\ m = "Chat" THEN "i_check" ELSE @]
             /\ eloc' = IF FailFast(ok)
                        THEN [eloc EXCEPT
                                !.failed = eloc.k,
                                !.returned = InitReport(build, m).returned,
                                !.log = InitReport(build, m).log]
                        ELSE [eloc EXCEPT
                                !.k = @ + 1,
                                !.failed = IF ~ok /\ @ = 0 THEN eloc.k ELSE @]
    /\ UNCHANGED <<modules, isEngineRunning, engineThread, messageQueue, stdin,
                   chatVars, idleVars>>

\* The loop is over: the run flag is set and init returns true.
EInitDone ==
    /\ epc["main"] = "m_init"
    /\ eloc.k > Len(modules)
    /\ isEngineRunning' = TRUE
    /\ epc' = [epc EXCEPT !["main"] = "m_ready"]
    /\ eloc' = [eloc EXCEPT !.returned = "true", !.log = "initialized"]
    /\ UNCHANGED <<modules, engineThread, messageQueue, isRunning, inputThread,
                   stdin, calls, unitVars, chatVars, idleVars>>

init == EInit \/ EInitModule \/ EInitDone

\* ------------------------------------------------- run, stop, destructor
\* (mutant) the order also resets the unit's health.
OrderedResetsHealth(b, g, w, h, us, k, d) ==
    LET p == computePath(b, g, w, h, Pos(us[k]), d)
    IN  [us EXCEPT ![k] = [@ EXCEPT !.destX = d[1], !.destY = d[2],
                                    !.path = p, !.isMoving = MovingFor(p),
                                    !.health = 100]]

\* The units after a whole setDestination on the k-th unit with
\* destination d.
Ordered(b, g, w, h, us, k, d) ==
    LET p == computePath(b, g, w, h, Pos(us[k]), d)
    IN  [us EXCEPT ![k] = [@ EXCEPT !.destX = d[1], !.destY = d[2],
                                    !.path = p, !.isMoving = MovingFor(p)]]

\* The move orders main gives between init and run: the Infantry to the
\* far corner and the Tank to the near one in the controller's main, the
\* first unit to the far corner in the other.
MainOrders(b, w, h) ==
    IF b = StrictG
    THEN <<[unitIndex |-> 0, dest |-> <<w - 1, h - 1>>],
           [unitIndex |-> 1, dest |-> <<0, 0>>]>>
    ELSE IF b = ImprovedF
    THEN <<[unitIndex |-> 0, dest |-> <<w - 1, h - 1>>]>>
    ELSE << >>

\* main's next move order: setDestination as a whole, under unitMutex.
CallOrder ==
    /\ epc["main"] = "m_ready"
    /\ eloc.returned = "true"
    /\ ~eloc.ran
    /\ eloc.shutdowns = 0
    /\ unitMutex = "free"
    /\ orders < Len(MainOrders(build, gridWidth, gridHeight))
    /\ orders' = orders + 1
    /\ LET o == MainOrders(build, gridWidth, gridHeight)[orders + 1]
       IN  units' = IF IndexRejected(build, o.unitIndex, Len(units)) THEN units
                    ELSE Ordered(build, grid, gridWidth, gridHeight, units,
                                 o.unitIndex + 1, o.dest)
    /\ UNCHANGED <<modules, isEngineRunning, engineThread, messageQueue,
                   isRunning, inputThread, stdin, epc, eloc, calls, gridWidth,
                   gridHeight, grid, chatVars, unitMutex, restVars>>

\* run(), called at most once and before any shutdown.
CallRun ==
    /\ epc["main"] = "m_ready"
    /\ ~eloc.ran
    /\ eloc.shutdowns = 0
    /\ eloc' = [eloc EXCEPT !.ran = TRUE]
    /\ IF RunGuarded(build) /\ ~isEngineRunning
       THEN UNCHANGED <<engineThread, epc>>
       ELSE /\ engineThread' = "running"
            /\ epc' = [epc EXCEPT !["engine"] = "e_check"]
    /\ UNCHANGED <<modules, isEngineRunning, messageQueue, isRunning,
                   inputThread, stdin, calls, unitVars, chatVars, idleVars>>

\* stop()
CallStop ==
    /\ epc["main"] = "m_ready"
    /\ HasStop(build)
    /\ isEngineRunning
    /\ isEngineRunning' = FALSE
    /\ eloc' = [eloc EXCEPT !.stopped = TRUE]
    /\ UNCHANGED <<modules, engineThread, messageQueue, isRunning, inputThread,
                   stdin, epc, calls, unitVars, chatVars, idleVars>>

\* An explicit call of shutdown().
CallShutdown ==
    /\ epc["main"] = "m_ready"
    /\ eloc.shutdowns < MaxShutdowns
    /\ epc' = [epc EXCEPT !["main"] = "m_join"]
    /\ eloc' = [eloc EXCEPT
                  !.snap = IF eloc.shutdowns >= 1 THEN EngineState ELSE << >>]
    /\ UNCHANGED <<modules, isEngineRunning, engineThread, messageQueue,
                   isRunning, inputThread, stdin, calls, unitVars, chatVars, idleVars>>

\* The engine object goes away.  The controller's destructor calls
\* shutdown; a GameEngine may only go once its thread has been joined.
Destroy ==
    /\ epc["main"] = "m_ready"
    /\ IF DestructorShutsDown(build)
       THEN /\ epc' = [epc EXCEPT !["main"] = "m_join"]
            /\ eloc' = [eloc EXCEPT
                          !.destroying = TRUE,
                          !.snap = IF eloc.shutdowns >= 1 THEN EngineState
                                   ELSE << >>]
       ELSE /\ ~Joinable(engineThread)
            /\ epc' = [epc EXCEPT !["main"] = "m_done"]
            /\ UNCHANGED eloc
    /\ UNCHANGED <<modules, isEngineRunning, engineThread, messageQueue,
                   isRunning, inputThread, stdin, calls, unitVars, chatVars, idleVars>>

\* ----------------------------------------------- orchestrator shutdown
\* if (engineThread.joinable()) engineThread.join(); the join returns
\* once the thread's function has.
SdnJoin ==
    /\ epc["main"] = "m_join"
    /\ IF Joinable(engineThread)
       THEN /\ engineThread = "finished"
            /\ engineThread' = "joined"
            /\ calls' = Append(calls, [op |-> "join", mod |-> "engineThread"])
       ELSE UNCHANGED <<engineThread, calls>>
    /\ epc' = [epc EXCEPT !["main"] = "m_shutdown"]
    /\ eloc' = [eloc EXCEPT !.k = 1]
    /\ UNCHANGED <<modules, isEngineRunning, messageQueue, isRunning,
                   inputThread, stdin, unitVars, chatVars, idleVars>>

\* One turn of the loop over the modules: the module's shutdown is
\* called.  UnitModule::shutdown clears the units under unitMutex;
\* ChatModule::shutdown clears isRunning and goes on to join the input
\* thread if it is joinable.
SdnModule ==
    /\ epc["main"] = "m_shutdown"
    /\ eloc.k <= Len(modules)
    /\ LET m == modules[TeardownOrder(build, Len(modules))[eloc.k]]
       IN  /\ calls' = Append(calls, [op |-> "shutdown", mod |-> m])
           /\ IF m = "Unit"
              THEN unitMutex = "free" /\ units' = << >>
              ELSE UNCHANGED units
           /\ isRunning' = IF m = "Chat" THEN FALSE ELSE isRunning
           /\ IF m = "Chat" /\ Joinable(inputThread)
              THEN /\ epc' = [epc EXCEPT !["main"] = "m_chatjoin"]
                   /\ UNCHANGED eloc
              ELSE /\ eloc' = [eloc EXCEPT !.k = @ + 1]
                   /\ UNCHANGED epc
    /\ UNCHANGED <<modules, isEngineRunning, engineThread, messageQueue,
                   inputThread, stdin, gridWidth, gridHeight, grid, chatVars, idleVars>>

\* inputThread.join() in ChatModule::shutdown.
SdnChatJoin ==
    /\ epc["main"] = "m_chatjoin"
    /\ inputThread = "finished"
    /\ inputThread' = "joined"
    /\ calls' = Append(calls, [op |-> "join", mod |-> "inputThread"])
    /\ epc' = [epc EXCEPT !["main"] = "m_shutdown"]
    /\ eloc' = [eloc EXCEPT !.k = @ + 1]
    /\ UNCHANGED <<modules, isEngineRunning, engineThread, messageQueue,
                   isRunning, stdin, unitVars, chatVars, idleVars>>

\* The loop is over: modules.clear(), and shutdown returns.
SdnReturn ==
    /\ epc["main"] = "m_shutdown"
    /\ eloc.k > Len(modules)
    /\ modules' = ClearedModules(modules)
    /\ epc' = [epc EXCEPT !["main"] = IF eloc.destroying THEN "m_done" ELSE "m_ready"]
    /\ eloc' = [eloc EXCEPT !.shutdowns = @ + 1, !.k = 0]
    /\ UNCHANGED <<isEngineRunning, engineThread, messageQueue, isRunning,
                   inputThread, stdin, calls, unitVars, chatVars, idleVars>>

shutdown == SdnJoin \/ SdnModule \/ SdnChatJoin \/ SdnReturn

\* ----------------------------------------------------------- mainLoop
\* const std::chrono::milliseconds tickRate(33)
TickRate == 33

\* (mutant) the loop over the modules runs back to front.
UpdateIndexReversed(u, n) == n + 1 - u

\* for (const auto& mod : modules): the u-th turn updates modules[u].
UpdateIndex(u, n) == u

\* How much later than one tickRate after this tick's start the next tick
\* starts, for a tick whose updates took work: the controller sleeps for
\* tickRate - elapsed when elapsed < tickRate, the GameEngine classes
\* sleep for the whole interval after the work.
Lateness(b, work) ==
    IF b = StrictG THEN (IF work > TickRate THEN work - TickRate ELSE 0)
    ELSE work

\* The same for a loop that sleeps until start + n * tickRate: time lost
\* is made up as soon as a tick is short enough.
FixedRateLate(late, work) ==
    IF late + work > TickRate THEN late + work - TickRate ELSE 0

\* (mutant) update prints the queue and forgets to clear it.
DrainKeeps(q) == q

\* messageQueue.clear() at the end of ChatModule::update.
DrainQueue(q) == << >>

\* while (isEngineRunning.load()): a tick begins, or the thread's
\* function returns.
ECheck ==
    /\ epc["engine"] = "e_check"
    /\ IF isEngineRunning
       THEN /\ epc' = [epc EXCEPT !["engine"] = "e_update"]
            /\ eloc' = [eloc EXCEPT
                          !.begunAfter = IF epc["main"] = "m_join" THEN @ + 1 ELSE @,
                          !.u = 1,
                          !.updated = << >>,
                          !.tickStart = units]
            /\ UNCHANGED engineThread
       ELSE /\ epc' = [epc EXCEPT !["engine"] = "e_done"]
            /\ engineThread' = "finished"
            /\ UNCHANGED eloc
    /\ UNCHANGED <<modules, isEngineRunning, messageQueue, isRunning,
                   inputThread, stdin, calls, unitVars, chatVars, idleVars>>

\* The module the loop over the modules has come to.
Current ==
    IF eloc.u <= Len(modules)
    THEN modules[UpdateIndex(eloc.u, Len(modules))]
    ELSE "none"

\* mod->update() on the unit module: the lock_guard and the loop over
\* the units.
EUnitRun ==
    /\ epc["engine"] = "e_update"
    /\ Current = "Unit"
    /\ Acquire("engine")
    /\ units' = [k \in 1 .. Len(units) |-> Advance(units[k])]
    /\ epc' = [epc EXCEPT !["engine"] = "e_unit_unlock"]
    /\ UNCHANGED <<modules, isEngineRunning, engineThread, messageQueue,
                   isRunning, inputThread, stdin, eloc, calls, gridWidth,
                   gridHeight, grid, chatVars, orders, restVars>>

\* UnitModule::update returns.
EUnitUnlock ==
    /\ epc["engine"] = "e_unit_unlock"
    /\ Release("engine")
    /\ epc' = [epc EXCEPT !["engine"] = "e_update"]
    /\ eloc' = [eloc EXCEPT !.u = @ + 1, !.updated = Append(@, "Unit")]
    /\ UNCHANGED <<modules, isEngineRunning, engineThread, messageQueue,
                   isRunning, inputThread, stdin, calls, unitVars, chatVars,
                   orders, restVars>>

\* mod->update() on the chat module: under chatMutex the queue is
\* printed front to back and cleared.
EChatRun ==
    /\ epc["engine"] = "e_update"
    /\ Current = "Chat"
    /\ chatMutex = "free"
    /\ chatMutex' = "engine"
    /\ reported' = reported \o messageQueue
    /\ messageQueue' = DrainQueue(messageQueue)
    /\ epc' = [epc EXCEPT !["engine"] = "e_chat_unlock"]
    /\ UNCHANGED <<modules, isEngineRunning, engineThread, isRunning,
                   inputThread, stdin, eloc, calls, unitVars, idleVars>>

\* ChatModule::update returns.
EChatUnlock ==
    /\ epc["engine"] = "e_chat_unlock"
    /\ chatMutex' = "free"
    /\ epc' = [epc EXCEPT !["engine"] = "e_update"]
    /\ eloc' = [eloc EXCEPT !.u = @ + 1, !.updated = Append(@, "Chat")]
    /\ UNCHANGED <<modules, isEngineRunning, engineThread, messageQueue,
                   reported, isRunning, inputThread, stdin, calls, unitVars,
                   idleVars>>

\* mod->update() on any other module: it works on its own fields under
\* its own mutex.
EOtherUpdate ==
    /\ epc["engine"] = "e_update"
    /\ Current \notin {"Unit", "Chat", "none"}
    /\ eloc' = [eloc EXCEPT !.u = @ + 1, !.updated = Append(@, Current)]
    /\ UNCHANGED <<modules, isEngineRunning, engineThread, messageQueue,
                   isRunning, inputThread, stdin, epc, calls, unitVars,
                   chatVars, idleVars>>

\* The rest of the loop body: the status print (it only reads), the
\* sleep, iteration++ and the demo limit.  late is how far the start of
\* the next tick lies behind loop start + n * tickRate.
ETickEnd ==
    /\ epc["engine"] = "e_update"
    /\ Current = "none"
    /\ eloc' = [eloc EXCEPT
                  !.iteration = @ + 1,
                  !.late = @ + Lateness(build, eloc.work),
                  !.ideal = FixedRateLate(@, eloc.work),
                  !.work = 0]
    /\ isEngineRunning' = IF LoopEnds(build, eloc.iteration + 1) THEN FALSE
                          ELSE isEngineRunning
    /\ epc' = [epc EXCEPT !["engine"] = "e_check"]
    /\ UNCHANGED <<modules, engineThread, messageQueue, isRunning, inputThread,
                   stdin, calls, unitVars, chatVars, idleVars>>

mainLoop ==
    \/ ECheck
    \/ EUnitRun
    \/ EUnitUnlock
    \/ EChatRun
    \/ EChatUnlock
    \/ EOtherUpdate
    \/ ETickEnd

\* The updates of a tick take time: 1 ms, or 1 ms more than the interval.
WorkTimes == {1, TickRate + 1}

WorkTakes ==
    /\ epc["engine"] = "e_update"
    /\ eloc.work = 0
    /\ \E w \in WorkTimes : eloc' = [eloc EXCEPT !.work = w]
    /\ UNCHANGED <<modules, isEngineRunning, engineThread, messageQueue,
                   isRunning, inputThread, stdin, epc, calls, unitVars,
                   chatVars, idleVars>>

\* ------------------------------------------------ ChatModule::inputLoop
\* The lines the console may deliver.
Lines == {"hi", "", "/exit"}

\* Whether the loop passes a line that is not "/exit" to addMessage: the
\* controller's chat module skips the empty line, the other build none.
Queued(b, line) == IF b = StrictG THEN line # "" ELSE TRUE

\* The message addMessage is given for a line.
Message(b, line) == IF b = StrictG THEN "Player: " \o line ELSE line

\* (mutant) the loop reads on after "/exit".
AfterLineReadsOn(b, line) ==
    IF line # "/exit" /\ Queued(b, line) THEN "i_add" ELSE "i_check"

\* Where the loop goes when getline has returned line: out of the loop
\* on "/exit", into addMessage, or round again.
AfterLine(b, line) ==
    IF line = "/exit" THEN "i_done"
    ELSE IF Queued(b, line) THEN "i_add"
    ELSE "i_check"

\* (mutant) addMessage guards the queue with the unit module's mutex too.
QueueLockSharedFree(um, cm) == um = "free" /\ cm = "free"

\* std::lock_guard<std::mutex> lock(chatMutex) in addMessage can be taken.
QueueLockFree(um, cm) == cm = "free"

\* (mutant) a failed read ends the loop.
AfterFailureStops(b, running) == "i_done"

\* Where the loop goes when getline has failed: the controller's chat
\* module leaves the loop if isRunning is clear, else sleeps and goes
\* round; the other build always sleeps and goes round.
AfterFailure(b, running) ==
    IF b = StrictG /\ ~running THEN "i_done" ELSE "i_check"

\* while (isRunning.load())
ICheck ==
    /\ epc["input"] = "i_check"
    /\ IF isRunning
       THEN /\ epc' = [epc EXCEPT !["input"] = "i_read"]
            /\ UNCHANGED inputThread
       ELSE /\ epc' = [epc EXCEPT !["input"] = "i_done"]
            /\ inputThread' = "finished"
    /\ UNCHANGED <<modules, isEngineRunning, engineThread, messageQueue,
                   isRunning, stdin, eloc, calls, unitVars, chatVars, idleVars>>

\* getline returns a line.  On "/exit" the other build also clears its
\* run flag.
ConsoleLine ==
    /\ epc["input"] = "i_read"
    /\ stdin = "open"
    /\ eloc.lines < MaxLines
    /\ \E line \in Lines :
         /\ isRunning' = IF line = "/exit" /\ build # StrictG THEN FALSE
                         ELSE isRunning
         /\ epc' = [epc EXCEPT !["input"] = AfterLine(build, line)]
         /\ inputThread' = IF AfterLine(build, line) = "i_done" THEN "finished"
                           ELSE inputThread
         /\ eloc' = [eloc EXCEPT !.lines = @ + 1,
                                 !.line = line,
                                 !.got = Append(@, line),
                                 !.exitAt = IF line = "/exit" THEN eloc.iteration
                                            ELSE @]
    /\ UNCHANGED <<modules, isEngineRunning, engineThread, messageQueue, stdin,
                   calls, unitVars, chatVars, idleVars>>

\* addMessage: the lock_guard and the push_back.
IAddLock ==
    /\ epc["input"] = "i_add"
    /\ QueueLockFree(unitMutex, chatMutex)
    /\ chatMutex' = "input"
    /\ messageQueue' = Append(messageQueue, Message(build, eloc.line))
    /\ eloc' = [eloc EXCEPT !.queuedEver = Append(@, Message(build, eloc.line))]
    /\ epc' = [epc EXCEPT !["input"] = "i_add_unlock"]
    /\ UNCHANGED <<modules, isEngineRunning, engineThread, reported, isRunning,
                   inputThread, stdin, calls, unitVars, idleVars>>

\* addMessage returns.
IAddUnlock ==
    /\ epc["input"] = "i_add_unlock"
    /\ chatMutex' = "free"
    /\ epc' = [epc EXCEPT !["input"] = "i_check"]
    /\ eloc' = [eloc EXCEPT !.line = ""]
    /\ UNCHANGED <<modules, isEngineRunning, engineThread, messageQueue,
                   reported, isRunning, inputThread, stdin, calls, unitVars,
                   idleVars>>

\* The console stream reaches its end or fails.
ConsoleFails ==
    /\ stdin = "open"
    /\ epc["input"] = "i_read"
    /\ stdin' = "failed"
    /\ UNCHANGED <<modules, isEngineRunning, engineThread, messageQueue,
                   isRunning, inputThread, epc, eloc, calls, unitVars,
                   chatVars, idleVars>>

\* getline on the failed stream returns false.  failedReads counts the
\* failed reads up to two.
IReadFailed ==
    /\ epc["input"] = "i_read"
    /\ stdin = "failed"
    /\ epc' = [epc EXCEPT !["input"] = AfterFailure(build, isRunning)]
    /\ inputThread' = IF AfterFailure(build, isRunning) = "i_done"
                      THEN "finished" ELSE inputThread
    /\ eloc' = [eloc EXCEPT !.failedReads = IF @ < 2 THEN @ + 1 ELSE @]
    /\ UNCHANGED <<modules, isEngineRunning, engineThread, messageQueue,
                   isRunning, stdin, calls, unitVars, chatVars, idleVars>>

inputLoop == ICheck \/ IAddLock \/ IAddUnlock \/ IReadFailed

\* ------------------------------------------------- the engine as a whole
\* A new engine object, nothing initialised yet.
InitEngine ==
    /\ build \in EngineBuilds
    /\ gridWidth = 0
    /\ gridHeight = 0
    /\ grid = GridWith(0, 0, {})
    /\ units = << >>
    /\ unitMutex = "free"
    /\ pc = [t \in Threads |-> "off"]
    /\ loc = [t \in Threads |-> IF t = TickThread THEN TickLocals ELSE CmdLocals]
    /\ orders = 0
    /\ status = << >>
    /\ stable = << >>
    /\ query = NoQuery
    /\ answer = NoAnswer
    /\ modules = << >>
    /\ isEngineRunning = FALSE
    /\ engineThread = "none"
    /\ messageQueue = << >>
    /\ chatMutex = "free"
    /\ reported = << >>
    /\ isRunning = FALSE
    /\ inputThread = "none"
    /\ stdin = "open"
    /\ epc = [t \in EngineThreads |-> IF t = "main" THEN "m_new" ELSE "off"]
    /\ eloc = NoEngineLocals
    /\ calls = << >>

\* The caller's use of the engine, the tick thread, the input thread and
\* the console.
NextEngine ==
    \/ init
    \/ CallOrder
    \/ CallRun
    \/ CallStop
    \/ CallShutdown
    \/ Destroy
    \/ shutdown
    \/ mainLoop
    \/ inputLoop
    \/ ConsoleLine
    \/ ConsoleFails

SpecEngine == InitEngine /\ [][NextEngine]_vars

\* The same with the scheduler's fairness: each thread that can take a
\* step of the program eventually does.  The console owes no line.
SpecEngineFair ==
    /\ SpecEngine
    /\ WF_vars(init \/ shutdown)
    /\ WF_vars(mainLoop)
    /\ WF_vars(inputLoop)

\* ------------------------------------------- the main program, timed
\* main without a console and without a shutdown: init, the move orders,
\* run, and the ticks, each taking some time for its work.
NextClock ==
    \/ init
    \/ CallOrder
    \/ CallRun
    \/ mainLoop
    \/ WorkTakes

SpecClock == InitEngine /\ [][NextClock]_vars

\* --------------------------------------- one order followed to its end
\* The walk-through of the design: a grid of five by five cells, open, or
\* with the column x = 2 blocked from y = 0 up to y = top.
Side == [w |-> 5, h |-> 5]

Column(top) == {<<2, y>> : y \in 0 .. top}

OpenGrid == GridWith(Side.w, Side.h, {})
ClosedGrid == GridWith(Side.w, Side.h, Column(Side.h - 1))
GapGrid == GridWith(Side.w, Side.h, Column(Side.h - 2))

\* The registry of init, its first unit standing at (0,0).
WalkUnits ==
    [InitialUnits(Side.w, Side.h) EXCEPT ![1] = Unit("Infantry", 100, 0, 0)]

InitWalk ==
    /\ build \in Builds
    /\ gridWidth = Side.w
    /\ gridHeight = Side.h
    /\ grid \in {OpenGrid, ClosedGrid, GapGrid}
    /\ units = WalkUnits
    /\ unitMutex = "free"
    /\ pc = [t \in Threads |-> "off"]
    /\ loc = [t \in Threads |-> IF t = TickThread THEN TickLocals ELSE CmdLocals]
    /\ orders = 0
    /\ status = <<>>
    /\ stable = <<>>
    /\ query = NoQuery
    /\ answer = NoAnswer
    /\ EngineOff

\* setDestination(0, x, y) as a whole, for each cell (x, y) of the grid;
\* query and answer keep the call and the route computePath returned.
WalkOrder ==
    /\ orders = 0
    /\ unitMutex = "free"
    /\ \E d \in Cells(gridWidth, gridHeight) :
          LET r == SearchFrom(build, grid, gridWidth, gridHeight, Pos(units[1]), d)
          IN  /\ units' = Ordered(build, grid, gridWidth, gridHeight, units, 1, d)
              /\ query' = [start |-> Pos(units[1]), goal |-> d]
              /\ answer' = Answer(r, gridWidth, gridHeight, Pos(units[1]), d)
    /\ orders' = 1
    /\ UNCHANGED <<engineVars, build, gridWidth, gridHeight, grid, unitMutex,
                   pc, loc, status, stable>>

\* One tick after the order: UnitModule::update as a whole, counted in
\* the loop's iteration.
WalkTick ==
    /\ orders = 1
    /\ unitMutex = "free"
    /\ eloc.iteration < MaxTicks
    /\ units' = [k \in 1 .. Len(units) |-> Advance(units[k])]
    /\ eloc' = [eloc EXCEPT !.iteration = @ + 1]
    /\ UNCHANGED <<modules, isEngineRunning, engineThread, messageQueue,
                   chatVars, isRunning, inputThread, stdin, epc, calls, build,
                   gridWidth, gridHeight, grid, unitMutex, pc, loc, orders,
                   status, stable, query, answer>>

NextWalk == WalkOrder \/ WalkTick

SpecWalk == InitWalk /\ [][NextWalk]_vars

\* ------------------------------------- orders while the engine runs
\* The controller's engine with a command source of its own: a thread
\* that calls setDestination once, at any time, while the tick thread
\* updates the modules and the input thread queues the console's lines.
CommandSource == "cmd1"

InitLocks ==
    /\ build = StrictG
    /\ gridWidth = 0
    /\ gridHeight = 0
    /\ grid = GridWith(0, 0, {})
    /\ units = << >>
    /\ unitMutex = "free"
    /\ pc = [t \in Threads |-> IF t = CommandSource THEN "idle" ELSE "off"]
    /\ loc = [t \in Threads |-> IF t = TickThread THEN TickLocals ELSE CmdLocals]
    /\ orders = MaxOrders - 1
    /\ status = << >>
    /\ stable = << >>
    /\ query = NoQuery
    /\ answer = NoAnswer
    /\ modules = << >>
    /\ isEngineRunning = FALSE
    /\ engineThread = "none"
    /\ messageQueue = << >>
    /\ chatMutex = "free"
    /\ reported = << >>
    /\ isRunning = FALSE
    /\ inputThread = "none"
    /\ stdin = "open"
    /\ epc = [t \in EngineThreads |-> IF t = "main" THEN "m_new" ELSE "off"]
    /\ eloc = NoEngineLocals
    /\ calls = << >>

NextLocks ==
    \/ init
    \/ CallRun
    \/ mainLoop
    \/ inputLoop
    \/ ConsoleLine
    \/ ConsoleFails
    \/ setDestination(CommandSource)

SpecLocks == InitLocks /\ [][NextLocks]_vars

\* ================================================================ claims

\* C1: in the build that re-queues a cell only when g strictly improves,
\* whenever a route from start to goal exists, the path computePath
\* returns has exactly as many cells as the breadth-first shortest
\* 4-connected distance from start to goal.
C1_Optimal ==
    (build = StrictG /\ answer.done) =>
        LET d == ShortestDist(grid, gridWidth, gridHeight, query.start, query.goal)
        IN  d >= 0 => Len(answer.path) = d

\* A route of at least three steps that is longer than the straight-line
\* distance was found: the search had to go around an obstacle.
C1_Witness ==
    /\ build = StrictG
    /\ answer.done
    /\ Len(answer.path) >= 3
    /\ Len(answer.path) > heuristic(query.start, query.goal)
    /\ Len(answer.path) = ShortestDist(grid, gridWidth, gridHeight,
                                       query.start, query.goal)

\* C2: every non-empty path computePath returns is valid: its first cell
\* is 4-adjacent to start, every two consecutive cells are 4-adjacent,
\* every cell is inside the grid and walkable, start is not in the path,
\* and the last cell is the goal.
C2_ValidPath ==
    (answer.done /\ answer.path # <<>>) =>
        /\ ValidPath(grid, gridWidth, gridHeight, query.start, answer.path)
        /\ \A k \in 1 .. Len(answer.path) : answer.path[k] # query.start
        /\ answer.path[Len(answer.path)] = query.goal

\* A path of four cells or more on a grid with blocked cells.
C2_Witness ==
    /\ answer.done
    /\ Len(answer.path) >= 4
    /\ \E c \in Cells(gridWidth, gridHeight) : grid[c] = 1

\* The Section 3 invariant of one unit, with its path starting next to it.
UnitConsistent(u) ==
    /\ u.isMoving => (u.path # <<>> \/ Pos(u) = Dest(u))
    /\ u.path # <<>> => Adjacent(Pos(u), u.path[1])

\* C3: whenever unitMutex is free (so whenever a thread holding it looks
\* at a unit), every unit has: moving implies a non-empty path or current
\* cell = destination cell, and the first cell of a non-empty path is
\* 4-adjacent to the current cell; under every interleaving of update with
\* the setDestination calls of two threads.
C3_NoTornUnit ==
    unitMutex = "free" => \A k \in 1 .. Len(units) : UnitConsistent(units[k])

\* Both commanders have ordered the same unit, the second while it was
\* under way; it has moved off its start cell and is still moving.
C3_Witness ==
    /\ unitMutex = "free"
    /\ \A t \in Commanders : pc[t] = "sd_returned" /\ loc[t].got.routed
    /\ \E k \in 1 .. Len(units) :
        /\ \A t \in Commanders : loc[t].unitIndex = k - 1
        /\ units[k].isMoving
        /\ units[k].path # <<>>
        /\ Pos(units[k]) # Pos(InitialUnits(gridWidth, gridHeight)[k])

\* C4: a status line is never torn: whenever no operation on the units is
\* under way, every line printStatus has written is the line of a state
\* its unit had between whole setDestination/update operations during
\* that printStatus.
C4_SnapshotNotTorn ==
    unitMutex = "free" =>
        \A k \in 1 .. Len(status) : status[k] \in stable[k]

\* C5: in every state, every cell of every unit's remaining path is a
\* walkable cell of the grid and is 4-adjacent to the cell before it in
\* the path.
C5_PathCellsValid ==
    \A k \in 1 .. Len(units) :
        \A j \in 1 .. Len(units[k].path) :
            /\ Walkable(grid, gridWidth, gridHeight, units[k].path[j])
            /\ j > 1 => Adjacent(units[k].path[j - 1], units[k].path[j])

\* An order re-issued to a unit that was moving gave it a path of two
\* cells or more.
C5_Witness ==
    \E t \in Commanders :
        /\ pc[t] = "sd_unlock"
        /\ loc[t].ref # 0
        /\ loc[t].before[loc[t].ref].isMoving
        /\ Len(units[loc[t].ref].path) >= 2

\* C6: when update is about to return, each unit that was moving with a
\* path of k > 0 cells has lost exactly the front cell, stands on it and
\* has k - 1 cells left, the last of which was and is its destination; it
\* is still moving when k > 1, and when k = 1 it is idle with an empty path
\* on its destination cell.  Every other unit is as it was.  So k updates
\* without a new order bring the unit to its destination, where further
\* updates leave it.
C6_AdvanceOneStep ==
    pc[TickThread] = "up_unlock" =>
        \A k \in 1 .. Len(units) :
            LET b == loc[TickThread].before[k]
                u == units[k]
                n == Len(b.path)
            IN  IF b.isMoving /\ b.path # <<>>
                THEN /\ u.path = Tail(b.path)
                     /\ Len(u.path) = n - 1
                     /\ Pos(u) = b.path[1]
                     /\ b.path[n] = Dest(b)
                     /\ Dest(u) = Dest(b)
                     /\ n > 1 => u.isMoving
                     /\ n = 1 => (~u.isMoving /\ u.path = <<>> /\ Pos(u) = Dest(u))
                ELSE u = b /\ ~b.isMoving /\ b.path = <<>>

\* One update in which a unit arrives and another goes on moving.
C6_Witness ==
    /\ pc[TickThread] = "up_unlock"
    /\ \E k \in 1 .. Len(units) :
        /\ Len(loc[TickThread].before[k].path) = 1
        /\ ~units[k].isMoving
        /\ Pos(units[k]) = Dest(units[k])
    /\ \E k \in 1 .. Len(units) :
        /\ Len(loc[TickThread].before[k].path) >= 2
        /\ units[k].isMoving

\* C7: when setDestination(i, d) with a valid index is about to return and
\* d is not the unit's cell and can be reached from it, the unit's path is
\* the route computePath gives from its cell to d, non-empty and ending in
\* d, its moving flag is set and its destination is d.
C7_OrderStartsMove ==
    \A t \in Commanders :
        (pc[t] = "sd_unlock" /\ loc[t].ref # 0) =>
            LET b == loc[t].before[loc[t].ref]
                u == units[loc[t].ref]
                d == <<loc[t].destX, loc[t].destY>>
            IN  (d # Pos(b) /\ ShortestDist(grid, gridWidth, gridHeight, Pos(b), d) > 0)
                => /\ u.path = computePath(build, grid, gridWidth, gridHeight, Pos(b), d)
                   /\ u.path # <<>>
                   /\ u.path[Len(u.path)] = d
                   /\ u.isMoving
                   /\ Dest(u) = d
                   /\ Pos(u) = Pos(b)

\* An order to a reachable cell two steps or more away is about to return.
C7_Witness ==
    \E t \in Commanders :
        /\ pc[t] = "sd_unlock"
        /\ loc[t].ref # 0
        /\ <<loc[t].destX, loc[t].destY>> # Pos(loc[t].before[loc[t].ref])
        /\ Len(units[loc[t].ref].path) >= 2
        /\ units[loc[t].ref].isMoving

\* C8: when a move order with an index out of range (at least the number
\* of units, or negative) is about to return, every unit is as it was when
\* the call began.
C8_BadIndexNoChange ==
    \A t \in Commanders :
        (/\ pc[t] = "sd_unlock"
         /\ (loc[t].unitIndex < 0 \/ loc[t].unitIndex >= Len(units)))
        => units = loc[t].before

\* An order with an index out of range for a cell that can be reached,
\* while a unit is moving, is about to return.
C8_Witness ==
    \E t \in Commanders :
        /\ pc[t] = "sd_unlock"
        /\ loc[t].unitIndex >= Len(units)
        /\ Walkable(grid, gridWidth, gridHeight, <<loc[t].destX, loc[t].destY>>)
        /\ \E k \in 1 .. Len(units) : units[k].isMoving

\* C9: when a move order whose destination lies outside the grid is about
\* to return, every unit is as it was when the call began.
C9_OutsideNoChange ==
    \A t \in Commanders :
        (/\ pc[t] = "sd_unlock"
         /\ ~InGrid(gridWidth, gridHeight, <<loc[t].destX, loc[t].destY>>))
        => units = loc[t].before

\* The kind of a finished move order, in the words of the command surface.
Kind(r) ==
    IF r.rejected THEN "InvalidUnitIndex"
    ELSE IF r.atDest THEN "AlreadyAtDestination"
    ELSE IF r.routed THEN "RouteFound"
    ELSE "NoRouteAvailable"

\* C10: two move orders of different kinds leave their callers with
\* different outcomes (here even counting the log line as an outcome).
C10_KindsToldApart ==
    \A t1, t2 \in Commanders :
        (/\ pc[t1] = "sd_returned"
         /\ pc[t2] = "sd_returned"
         /\ Kind(loc[t1].got) # Kind(loc[t2].got))
        => <<loc[t1].got.ret, loc[t1].got.log>> # <<loc[t2].got.ret, loc[t2].got.log>>

\* C11: an order whose destination is the cell the unit stands on gets the
\* empty path from computePath (start equals goal), and when setDestination
\* is about to return the unit is idle: path empty, isMoving false, still
\* on its cell, that cell its destination.
C11_SameCellIdle ==
    \A t \in Commanders :
        LET l == loc[t]
        IN  (/\ pc[t] \in {"sd_moving", "sd_unlock"}
             /\ l.ref # 0
             /\ Pos(l.before[l.ref]) = <<l.destX, l.destY>>) =>
                LET u == units[l.ref]
                IN  /\ u.path = <<>>
                    /\ Pos(u) = Pos(l.before[l.ref])
                    /\ pc[t] = "sd_unlock" =>
                            (~u.isMoving /\ Dest(u) = Pos(u))

\* A unit under way was ordered to the cell it had reached, and the call
\* is about to return.
C11_Witness ==
    \E t \in Commanders :
        /\ pc[t] = "sd_unlock"
        /\ loc[t].ref # 0
        /\ Pos(loc[t].before[loc[t].ref]) = <<loc[t].destX, loc[t].destY>>
        /\ loc[t].before[loc[t].ref].isMoving
        /\ loc[t].before[loc[t].ref].path # <<>>

\* The goal is a cell of the grid that is blocked, or whose neighbours
\* inside the grid are all blocked.
Enclosed(g, w, h, goal) ==
    /\ InGrid(w, h, goal)
    /\ \/ g[goal] = 1
       \/ \A c \in Cells(w, h) : Adjacent(c, goal) => g[c] = 1

\* C12: when the goal is blocked or enclosed by blocked cells and start is
\* another cell, computePath returns the empty sequence (its ordinary
\* return value; the search ends with found false).
C12_EnclosedGoalEmpty ==
    (/\ answer.done
     /\ query.start # query.goal
     /\ Enclosed(grid, gridWidth, gridHeight, query.goal)) =>
        (answer.path = <<>> /\ ~answer.found)

\* A walkable goal walled in by two blocked cells, after a search that
\* expanded more than its start cell before the open set ran empty.
C12_Witness ==
    /\ answer.done
    /\ query.start # query.goal
    /\ Enclosed(grid, gridWidth, gridHeight, query.goal)
    /\ grid[query.goal] = 0
    /\ answer.pops >= 3
    /\ answer.path = <<>>

\* The modules on which op was called so far, in call order.
Called(op) ==
    LET cs == SelectSeq(calls, LAMBDA c : c.op = op)
    IN  [i \in 1 .. Len(cs) |-> cs[i].mod]

Reverse(q) == [i \in 1 .. Len(q) |-> q[Len(q) + 1 - i]]

IsPrefix(a, b) == Len(a) <= Len(b) /\ \A i \in 1 .. Len(a) : a[i] = b[i]

InShutdown == epc["main"] \in {"m_join", "m_shutdown", "m_chatjoin"}

\* C14: once GameEngineController::shutdown has been invoked the tick
\* loop begins no new tick beyond the one in progress (at most one
\* passes the loop test after the invocation), and every module shutdown
\* comes after the join of the tick thread.
C14_ShutdownStopsLoop ==
    build = StrictG =>
        /\ eloc.begunAfter <= 1
        /\ \A i, j \in 1 .. Len(calls) :
              (calls[i].op = "shutdown" /\ calls[j].mod = "engineThread") => j < i

\* C15: the controller's shutdown calls the modules' shutdown in the
\* reverse of the registration order m1..mn, each once: at any moment the
\* shutdown calls made are a prefix of mn..m1, all of it once a shutdown
\* has returned, and after a successful init that is the reverse of the
\* order of the init calls.
C15_ReverseTeardown ==
    build = StrictG =>
        /\ IsPrefix(Called("shutdown"), Reverse(Registered(build)))
        /\ eloc.shutdowns >= 1 =>
              Called("shutdown") = Reverse(Registered(build))
        /\ (eloc.shutdowns >= 1 /\ eloc.returned = "true") =>
              Called("shutdown") = Reverse(Called("init"))

\* The controller was initialised and run, its tick thread joined and a
\* shutdown has returned.
C15_Witness ==
    /\ build = StrictG
    /\ eloc.returned = "true"
    /\ engineThread = "joined"
    /\ eloc.iteration > 0
    /\ eloc.shutdowns >= 1
    /\ Len(Called("shutdown")) = 5

\* C16: the GameEngine of gameplay_stitched.cpp and of its copies shuts
\* its modules down in reverse registration order, the last registered
\* first.
C16_GameEngineReverse ==
    build # StrictG =>
        IsPrefix(Called("shutdown"), Reverse(Registered(build)))

\* C17: a shutdown of the controller that has begun eventually returns,
\* whether or not the console delivers another line.
C17_ShutdownReturns ==
    (build = StrictG /\ InShutdown) ~> ~InShutdown

\* C18: a shutdown called after a completed shutdown (explicitly or by
\* the destructor) joins no thread, calls no module's shutdown and leaves
\* the engine as it found it.
C18_SecondShutdownNoop ==
    (eloc.snap # << >> /\ (InShutdown \/ epc["main"] = "m_done")) =>
        EngineState = eloc.snap

\* The controller was run and shut down explicitly, and its destructor's
\* shutdown has returned as well.
C18_Witness ==
    /\ build = StrictG
    /\ epc["main"] = "m_done"
    /\ eloc.snap # << >>
    /\ eloc.shutdowns >= 2
    /\ engineThread = "joined"
    /\ inputThread = "joined"
    /\ Len(Called("shutdown")) = 5

C20_ReportNamesModule ==
    (build = StrictG /\ eloc.failed > 0) =>
        \A j \in 1 .. Len(Registered(build)) :
            j # eloc.failed =>
                InitReport(build, Registered(build)[j]) #
                    [returned |-> eloc.returned, log |-> eloc.log]

\* The tick thread is inside a tick.
InTick == epc["engine"] \in {"e_update", "e_unit_unlock", "e_chat_unlock"}

\* C21: a tick updates every module once, in registration order, and when
\* the chat module's drain has run every unit that was in motion at the
\* start of the tick has advanced exactly one step (and no other unit has
\* changed).
C21_UpdateOrder ==
    /\ InTick => IsPrefix(eloc.updated, modules)
    /\ (epc["engine"] = "e_update" /\ Current = "none") => eloc.updated = modules
    /\ (epc["engine"] = "e_chat_unlock" /\ Has("Unit")) =>
          units = [k \in 1 .. Len(eloc.tickStart) |-> Advance(eloc.tickStart[k])]

\* The drain of a tick has just run and a unit has made its step in this
\* tick.
C21_Witness ==
    /\ epc["engine"] = "e_chat_unlock"
    /\ \E k \in 1 .. Len(units) :
          /\ eloc.tickStart[k].isMoving
          /\ Pos(units[k]) = Head(eloc.tickStart[k].path)
          /\ Pos(units[k]) # Pos(eloc.tickStart[k])

\* The lines received so far that are not the termination token.
NonExit == SelectSeq(eloc.got, LAMBDA l : l # "/exit")

\* C22: between two reads, the messages queued so far are exactly the
\* lines received so far that are not "/exit", one message per line, the
\* empty line included.
C22_EveryLineQueued ==
    epc["input"] \in {"i_check", "i_read", "i_done"} =>
        eloc.queuedEver = [i \in 1 .. Len(NonExit) |-> Message(build, NonExit[i])]

GotExit == \E i \in 1 .. Len(eloc.got) : eloc.got[i] = "/exit"

\* C23: once "/exit" has been received it is the last line received and
\* the input loop has ended; the tick loop is untouched by it: its run
\* flag is clear only if stop() or the loop's own limit cleared it, and
\* the tick thread always has its next step to take.
C23_TokenEndsInputOnly ==
    GotExit =>
        /\ eloc.got[Len(eloc.got)] = "/exit"
        /\ \A i \in 1 .. Len(eloc.got) - 1 : eloc.got[i] # "/exit"
        /\ epc["input"] = "i_done"
        /\ (eloc.returned = "true" /\ ~eloc.stopped
                /\ ~LoopEnds(build, eloc.iteration)) => isEngineRunning
        /\ (InTick \/ epc["engine"] = "e_check") => ENABLED mainLoop

\* A unit has made a step in a tick that began after "/exit" was received.
C23_Witness ==
    /\ GotExit
    /\ eloc.exitAt >= 0
    /\ eloc.iteration > eloc.exitAt
    /\ epc["engine"] = "e_unit_unlock"
    /\ \E k \in 1 .. Len(units) : Pos(units[k]) # Pos(eloc.tickStart[k])

\* C24: the messages ever queued are those reported so far followed by
\* those still in the queue: none lost, none twice, order kept; and the
\* drain leaves the queue empty.
C24_DrainExact ==
    /\ eloc.queuedEver = reported \o messageQueue
    /\ epc["engine"] = "e_chat_unlock" => messageQueue = << >>

\* A message has been reported and a later one waits for the next drain.
C24_Witness ==
    /\ Len(reported) >= 1
    /\ Len(messageQueue) >= 1
    /\ epc["engine"] = "e_unit_unlock"

\* C25: the input thread never holds the unit lock and the tick thread
\* does not hold the queue lock while it advances units; addMessage can
\* go on whenever chatMutex is free, whoever holds unitMutex, and
\* UnitModule::update whenever unitMutex is free, whoever holds chatMutex.
C25_IndependentLocks ==
    /\ unitMutex # "input"
    /\ epc["engine"] = "e_unit_unlock" => chatMutex # "engine"
    /\ epc["input"] = "i_add_unlock" => unitMutex # "input"
    /\ (epc["input"] = "i_add" /\ chatMutex = "free") => ENABLED IAddLock
    /\ (epc["engine"] = "e_update" /\ Current = "Unit" /\ unitMutex = "free") =>
          ENABLED EUnitRun

\* A message arrives while the tick thread holds the unit lock.
C25_Witness ==
    /\ epc["input"] = "i_add"
    /\ unitMutex = "engine"
    /\ chatMutex = "free"

\* C26: a failed read ends the input loop: after the first failed read
\* the loop has been left, and no second read is tried.
C26_FailedReadStops ==
    eloc.failedReads >= 1 =>
        (epc["input"] = "i_done" /\ eloc.failedReads = 1)

\* The order of the walk-through went to cell d.
WalkOrdered(d) == orders = 1 /\ query.goal = d

\* C27: on the open grid of five by five an order that sends the unit at
\* (0,0) to (4,4) finds a route of 8 cells; for the first 7 ticks after
\* it the unit is moving, one cell of the route taken per tick, and from
\* the 8th tick on it is idle at (4,4), its path empty.
C27_OpenWalk ==
    (grid = OpenGrid /\ WalkOrdered(<<4, 4>>)) =>
        /\ answer.found
        /\ Len(answer.path) = 8
        /\ eloc.iteration < 8 =>
              /\ units[1].isMoving
              /\ Len(units[1].path) = 8 - eloc.iteration
              /\ eloc.iteration > 0 => Pos(units[1]) = answer.path[eloc.iteration]
        /\ eloc.iteration >= 8 =>
              /\ ~units[1].isMoving
              /\ units[1].path = <<>>
              /\ Pos(units[1]) = <<4, 4>>

\* The 8th tick has left the unit idle at (4,4).
C27_Witness ==
    /\ grid = OpenGrid
    /\ WalkOrdered(<<4, 4>>)
    /\ eloc.iteration = 8
    /\ ~units[1].isMoving
    /\ Pos(units[1]) = <<4, 4>>

\* C28 (as claimed): with the whole column x = 2 blocked, an order that
\* sends the unit at (0,0) to (4,0) finds a route of more than 4 cells
\* and the unit is set moving.
C28_ClosedColumnDetour ==
    (grid = ClosedGrid /\ WalkOrdered(<<4, 0>>)) =>
        /\ answer.found
        /\ Len(answer.path) > 4
        /\ (eloc.iteration = 0 => units[1].isMoving)

\* C28 (amended): with the whole column x = 2 blocked no cell of the
\* column or right of it has a route from (0,0): the order to (4,0)
\* returns the empty path and the unit stays idle at (0,0) whatever the
\* number of ticks; with the column blocked for y in 0..3 only, the same
\* order finds a valid route of 12 cells through the gap (2,4).
C28_DetourNeedsGap ==
    /\ (grid = ClosedGrid /\ orders = 1 /\ query.goal[1] >= 2) =>
          /\ ~answer.found
          /\ answer.path = <<>>
          /\ ~units[1].isMoving
          /\ units[1].path = <<>>
          /\ Pos(units[1]) = <<0, 0>>
          /\ Dest(units[1]) = query.goal
    /\ (grid = GapGrid /\ WalkOrdered(<<4, 0>>)) =>
          /\ answer.found
          /\ Len(answer.path) = 12
          /\ ValidPath(grid, gridWidth, gridHeight, <<0, 0>>, answer.path)
          /\ \E k \in 1 .. Len(answer.path) : answer.path[k] = <<2, 4>>
          /\ (eloc.iteration = 0 => units[1].isMoving)

\* The order to (4,0) across the closed column was given and a tick later
\* the unit still stands idle at (0,0).
C28_Witness ==
    /\ grid = ClosedGrid
    /\ WalkOrdered(<<4, 0>>)
    /\ eloc.iteration >= 1
    /\ ~units[1].isMoving
    /\ Pos(units[1]) = <<0, 0>>

\* C29: every tick starts as late after its place in the fixed-rate
\* schedule (loop start + n * interval) as a fixed-rate loop would start
\* it: on time when the ticks before it kept within the interval, and
\* late only by what the work of the ticks before it has not yet been
\* made up for.
C29_NoDrift == eloc.late = eloc.ideal

\* C30: after UnitModule::init (and before its shutdown) the grid has
\* the dimensions and the blocked cells init gave it, and the registry
\* holds init's units in init's order, each with its name and health.
C30_WorldReadOnly ==
    /\ gridWidth = GridW
    /\ gridHeight = GridH
    /\ grid = GridWith(GridW, GridH, Wall(GridW, GridH))
    /\ Len(units) = NumUnits
    /\ \A k \in 1 .. NumUnits :
          /\ units[k].name = InitialUnits(GridW, GridH)[k].name
          /\ units[k].health = InitialUnits(GridW, GridH)[k].health

\* Every order has been given and a unit has left its start cell.
C30_Witness ==
    /\ orders = MaxOrders
    /\ \E k \in 1 .. Len(units) : Pos(units[k]) # Pos(InitialUnits(GridW, GridH)[k])

\* C31: every pop of a finished search took, among the entries of the
\* open set with the popped entry's priority f, the one pushed first.
C31_TiesInDiscoveryOrder == answer.done => answer.fifo

\* The cells a finished search expanded, as a set.
ExpandedCells == {answer.expanded[k] : k \in 1 .. Len(answer.expanded)}

\* C32: a call of computePath ends, and it ends in one of two ways: the
\* goal was popped, once and as the last pop, or the open set ran empty
\* (every push was popped again) without the goal ever expanded; no cell
\* was expanded twice, and the pops are at most one for the start plus
\* four for each cell expanded.
C32_SearchEnds ==
    answer.done =>
        /\ Cardinality(ExpandedCells) = Len(answer.expanded)
        /\ Len(answer.expanded) <= Cardinality(Cells(gridWidth, gridHeight))
        /\ answer.pops <= answer.pushed
        /\ answer.pushed <= 1 + 4 * Len(answer.expanded)
        /\ answer.found => (query.goal \in Cells(gridWidth, gridHeight)
                               /\ query.goal \notin ExpandedCells)
        /\ ~answer.found => (answer.pops = answer.pushed
                               /\ query.goal \notin ExpandedCells)

\* A search for a goal inside the grid that failed only when the open
\* set ran empty, several cells expanded.
C32_Witness ==
    /\ answer.done
    /\ ~answer.found
    /\ query.goal \in Cells(gridWidth, gridHeight)
    /\ Len(answer.expanded) >= 3

\* C33: whichever variant runs, the path returned has as many cells as
\* the breadth-first shortest distance from start to goal, and is empty
\* when there is no route; so the two variants, run on the same grid,
\* start and goal, return paths of the same length.
C33_VariantsAgree ==
    answer.done =>
        LET d == ShortestDist(grid, gridWidth, gridHeight, query.start, query.goal)
            strict == computePath(StrictG, grid, gridWidth, gridHeight,
                                  query.start, query.goal)
            improved == computePath(ImprovedF, grid, gridWidth, gridHeight,
                                    query.start, query.goal)
        IN  /\ answer.path = (IF build = StrictG THEN strict ELSE improved)
            /\ Len(strict) = Len(improved)
            /\ Len(answer.path) = (IF d < 0 THEN 0 ELSE d)
            /\ answer.found = (d >= 0)

\* The f-improvement variant has answered with a route that bends round
\* blocked cells.
C33_Witness ==
    /\ answer.done
    /\ build = ImprovedF
    /\ answer.found
    /\ Len(answer.path) > heuristic(query.start, query.goal)

\* C38: every cell a call of computePath used as an index of the grid,
\* the closed set or the node table (the start, every popped cell, every
\* neighbour that passed the bounds test, every cell of the walk back)
\* lies inside the grid, whatever the goal: a cell of the grid, blocked
\* or not, or a cell beyond one of its sides.
C38_IndexesInsideGrid ==
    answer.done => answer.touched \subseteq Cells(gridWidth, gridHeight)

\* A search for a goal outside the grid that went over several cells.
C38_Witness ==
    /\ answer.done
    /\ ~InGrid(gridWidth, gridHeight, query.goal)
    /\ Len(answer.expanded) >= 3
    /\ Cardinality(answer.touched) >= 4

\* A commander's setDestination has made all its writes on a unit and
\* still holds the mutex.
Written(t) == pc[t] = "sd_unlock" /\ loc[t].ref # 0

\* C34: when setDestination has computed an empty path for a unit, the
\* unit's path is empty and its moving flag clear, whatever route it was
\* on before the call; it stands on the cell it stood on when the call
\* began, and its destination is the one ordered.
C34_FailedOrderCancels ==
    \A t \in Commanders :
        (Written(t) /\ units[loc[t].ref].path = <<>>) =>
            LET u == units[loc[t].ref]
                was == loc[t].before[loc[t].ref]
            IN  /\ ~u.isMoving
                /\ Pos(u) = Pos(was)
                /\ Dest(u) = <<loc[t].destX, loc[t].destY>>

\* A unit on its way along a route was ordered to a cell with no route to
\* it: it is left idle, its destination another cell than its own.
C34_Witness ==
    \E t \in Commanders :
        /\ Written(t)
        /\ loc[t].before[loc[t].ref].isMoving
        /\ loc[t].before[loc[t].ref].path # <<>>
        /\ units[loc[t].ref].path = <<>>
        /\ ~units[loc[t].ref].isMoving
        /\ Dest(units[loc[t].ref]) # Pos(units[loc[t].ref])

\* C35: from the moment setDestination(i, d) holds the mutex until it
\* gives it up, every unit other than the i-th is what it was when the
\* call began; a call whose index is rejected leaves every unit so.
C35_OnlyTheOrderedUnit ==
    \A t \in Commanders :
        pc[t] \in {"sd_destX", "sd_destY", "sd_path", "sd_moving", "sd_unlock"} =>
            /\ Len(units) = Len(loc[t].before)
            /\ \A j \in 1 .. Len(units) :
                  (loc[t].ref = 0 \/ j # loc[t].unitIndex + 1) =>
                      units[j] = loc[t].before[j]

\* An order has changed its unit while another unit was on its way.
C35_Witness ==
    \E t \in Commanders :
        /\ Written(t)
        /\ units[loc[t].ref] # loc[t].before[loc[t].ref]
        /\ \E j \in 1 .. Len(units) : j # loc[t].ref /\ units[j].isMoving

\* C36: every unit stands on a cell inside the grid that is not blocked.
C36_UnitsOnWalkableCells ==
    \A k \in 1 .. Len(units) :
        Walkable(grid, gridWidth, gridHeight, Pos(units[k]))

\* A unit has left its start cell while some unit's destination is a
\* cell that is blocked or outside the grid.
C36_Witness ==
    /\ \E k \in 1 .. Len(units) : Pos(units[k]) # Pos(InitialUnits(GridW, GridH)[k])
    /\ \E k \in 1 .. Len(units) :
          ~Walkable(grid, gridWidth, gridHeight, Dest(units[k]))
    /\ orders = MaxOrders

C39_FailedInitThenShutdown ==
    (build = StrictG /\ eloc.returned = "false") =>
        /\ engineThread = "none"
        /\ epc["engine"] = "off"
        /\ eloc.updated = << >>
        /\ eloc.iteration = 0
        /\ Len(Called("init")) = eloc.failed
        /\ eloc.shutdowns >= 1 =>
              Called("shutdown") = Reverse(Registered(build))

\* Init failed before the last module, run() was called, and a shutdown
\* has returned.
C39_Witness ==
    /\ build = StrictG
    /\ eloc.returned = "false"
    /\ eloc.failed < Len(Registered(build))
    /\ eloc.ran
    /\ eloc.shutdowns >= 1
    /\ Len(Called("shutdown")) > Len(Called("init"))

\* The threads that take module locks.
LockTakers == {"engine", "input", CommandSource}

\* C40: no thread holds unitMutex and chatMutex at once; the input
\* thread never holds unitMutex and the command source never chatMutex;
\* and whoever holds a lock has its next step to take, which is not an
\* acquisition (for the command source inside its path search the step
\* is the search itself, which takes no lock and ends): the holder is
\* never itself waiting, so no wait for a module lock is a deadlock.
C40_OneLockAtATime ==
    /\ \A t \in LockTakers : ~(unitMutex = t /\ chatMutex = t)
    /\ unitMutex \in {"free", "engine", CommandSource}
    /\ chatMutex \in {"free", "engine", "input"}
    /\ unitMutex = "engine" => (epc["engine"] = "e_unit_unlock" /\ ENABLED EUnitUnlock)
    /\ chatMutex = "engine" => (epc["engine"] = "e_chat_unlock" /\ ENABLED EChatUnlock)
    /\ chatMutex = "input" => (epc["input"] = "i_add_unlock" /\ ENABLED IAddUnlock)
    /\ unitMutex = CommandSource =>
          /\ pc[CommandSource] \in {"sd_destX", "sd_destY", "sd_path",
                                    "sd_moving", "sd_unlock"}
          /\ pc[CommandSource] = "sd_destX" => ENABLED SdDestX(CommandSource)
          /\ pc[CommandSource] = "sd_destY" => ENABLED SdDestY(CommandSource)
          /\ pc[CommandSource] = "sd_moving" => ENABLED SdMoving(CommandSource)
          /\ pc[CommandSource] = "sd_unlock" => ENABLED SdUnlock(CommandSource)

\* The three threads at once: the command source inside its path search
\* under unitMutex, the input thread adding a message under chatMutex,
\* the tick thread waiting to update the unit module.
C40_Witness ==
    /\ unitMutex = CommandSource
    /\ pc[CommandSource] = "sd_path"
    /\ chatMutex = "input"
    /\ epc["engine"] = "e_update"
    /\ Current = "Unit"

====
